---- MODULE Spec2Model ----
(***************************************************************************)
(* Model of the activity-tracking hook (src/src/hooks/useActivityTracking.ts) *)
(* together with the position source (useGeolocation) and the part of the  *)
(* AuthProvider it calls (updateStats / fetchStats).                       *)
(*                                                                         *)
(* A handler's state update is committed by the handler's action; the      *)
(* effects that the changed dependencies schedule run afterwards, in       *)
(* FlushEffects (the variable commit names the handler whose effects are   *)
(* still due).  Until they have run, the interval armed by an earlier      *)
(* timer effect is still armed and its callback may fire; user events,     *)
(* watch callbacks and promise continuations are taken to run only after   *)
(* the effects of the previous update.  Promises are modelled by the       *)
(* in-flight call records of startCalls and stopCalls: each await is a     *)
(* separate action.                                                        *)
(*                                                                         *)
(* Fixes are points on one meridian, given by their offset in metres; the  *)
(* great-circle distance of two of them is the absolute difference of the  *)
(* offsets.  calories is kept in units of 1/36000 kcal so that the MET     *)
(* table (10, 3.5, 7) and the division by 3600 stay exact.                 *)
(***************************************************************************)
EXTENDS Integers, Sequences, FiniteSets, TLC

\* ---------------------------------------------------------------- bounds
MaxPath == 4
MaxDuration == 1
MaxCalls == 1
MaxActivities == 1
MaxWatches == 3
MaxZones == 4
MaxPlaces == 3
MaxSmoothLen == 3
MaxZoom == 3
MaxStops == 2
MaxStarts == 2
MaxGrowLen == 4
MaxStoreZones == 2
MaxXp == 2000

\* offsets (metres) of the fixes the location provider can deliver
Points == {0, 5, 30, 90}
NoFix == -1
ActivityTypes == {"run", "walk"}
\* all kinds of ActivityState.activityType but null
AllActivityTypes == ActivityTypes \cup {"cycle"}
NoType == "none"
NoWatch == 0

\* ------------------------------------------------------ program constants
NoiseThreshold == 5
LoopMinDistance == 100
LoopRadius == 30
averageWeightKg == 70

VARIABLES
  state,                 \* useState<ActivityState>
  lastPositionRef,       \* useRef: last accepted fix
  startPositionRef,      \* useRef: first fix of the session
  loopCheckDistanceRef,  \* useRef: metres since the last loop closure
  intervalRef,           \* TRUE while the 1-second interval is armed
  position,              \* useGeolocation().position
  stats,                 \* AuthProvider's stats: <<>> or <<record>>
  dbStats,               \* the user_stats row
  dbActivities,          \* rows inserted into activities
  startCalls,            \* startActivity calls awaiting getCurrentPosition
  stopCalls,             \* stopActivity calls awaiting persistence
  startResult,           \* what the last finished startActivity returned
  stopResult,            \* what the last finished stopActivity returned
  commit,                \* handler whose effects are still to be flushed
  mounted,               \* is the component that calls useGeolocation mounted
  watchIdRef,            \* useGeolocation's useRef: id of its watch, or NoWatch
  activeWatches,         \* ids the device has a watchPosition registered for
  nextWatchId,           \* the id the next watchPosition call returns
  enableHighAccuracy,    \* the option the watch is registered with
  loading,               \* useGeolocation's loading flag
  rankInput,             \* rankNearbyPlaces: its arguments [user, places, limit]
  ranked,                \* rankNearbyPlaces: <<>> or <<the array it returned>>
  smoothInput,           \* smoothGpsPath: its arguments [path, alpha]
  smoothed,              \* smoothGpsPath: <<>> or <<the array it returned>>
  dailyZones,            \* a getDailyGoToZones request and its outcome
  zonePick,              \* MapView's handleAiZonePick and the selectBestZone it awaits
  tileInput,             \* tileUrl: its arguments [x, y, zoom]
  tileResult,            \* tileUrl: <<>> or <<the URL it returned>>
  distInput,             \* the distance functions: their arguments [a, b]
  distResult,            \* <<>> or <<what the two distance functions returned>>
  appStore               \* useAppStore: <<>> or <<[xp, level, zones]>>

vars == <<state, lastPositionRef, startPositionRef, loopCheckDistanceRef,
          intervalRef, position, stats, dbStats, dbActivities,
          startCalls, stopCalls, startResult, stopResult, commit,
          mounted, watchIdRef, activeWatches, nextWatchId, enableHighAccuracy,
          loading, rankInput, ranked, smoothInput, smoothed, dailyZones, zonePick,
          tileInput, tileResult, distInput, distResult, appStore>>

\* the variables of the position source, and of the tracking hook
geo == <<mounted, watchIdRef, activeWatches, nextWatchId, enableHighAccuracy, loading>>
tracker == <<state, lastPositionRef, startPositionRef, loopCheckDistanceRef,
             intervalRef, stats, dbStats, dbActivities, startCalls, stopCalls,
             startResult, stopResult, commit>>

\* the variables of the map algorithms and of the recommendation services
mapAndStore == <<tileInput, tileResult, distInput, distResult, appStore>>
services == <<rankInput, ranked, smoothInput, smoothed, dailyZones, zonePick,
              mapAndStore>>
hooks == <<position, tracker, geo>>

refs == <<lastPositionRef, startPositionRef, loopCheckDistanceRef>>
persistence == <<stats, dbStats, dbActivities>>

\* ------------------------------------------------------------- helpers
Abs(x) == IF x < 0 THEN -x ELSE x

\* haversine distance of two fixes on the meridian, in metres
calculateDistance(coord1, coord2) == Abs(coord2 - coord1)

\* the number NaN, which arithmetic on undefined yields
NaN == -1

\* MET_VALUES times 10: run 10, walk 3.5, cycle 7; undefined for null
MET_VALUES(type) ==
  CASE type = "run" -> 100
    [] type = "walk" -> 35
    [] type = "cycle" -> 70
    [] OTHER -> NaN

\* an estimate that also grows with the distance covered
calculateCalories_UsesDistance(activityType, durationSeconds, distanceMeters) ==
  IF MET_VALUES(activityType) = NaN THEN NaN
  ELSE MET_VALUES(activityType) * averageWeightKg * durationSeconds + distanceMeters

\* met * averageWeightKg * hours, in units of 1/36000 kcal
calculateCalories(activityType, durationSeconds, distanceMeters) ==
  IF MET_VALUES(activityType) = NaN THEN NaN
  ELSE MET_VALUES(activityType) * averageWeightKg * durationSeconds

\* the state useState is initialised with, and stopActivity resets to
IdleState ==
  [isTracking |-> FALSE, isPaused |-> FALSE, activityType |-> NoType,
   path |-> <<>>, distance |-> 0, duration |-> 0, calories |-> 0,
   loops |-> 0, startTime |-> FALSE, currentSpeed |-> 0]

\* startActivity that spreads the previous state instead of resetting it
StartedState_KeepsCounters(type, currentPos) ==
  [state EXCEPT !.isTracking = TRUE, !.isPaused = FALSE, !.activityType = type,
                !.path = <<currentPos>>, !.startTime = TRUE]

\* the state startActivity sets
StartedState(type, currentPos) ==
  [isTracking |-> TRUE, isPaused |-> FALSE, activityType |-> type,
   path |-> <<currentPos>>, distance |-> 0, duration |-> 0, calories |-> 0,
   loops |-> 0, startTime |-> TRUE, currentSpeed |-> 0]

\* of the user_stats row, the columns of the activity count and of XP
getDefaultStats == [total_activities |-> 0, xp |-> 0, level |-> 1]

\* the tracking hook after its first render, but for stats
TrackerIdle ==
  /\ state = IdleState
  /\ lastPositionRef = NoFix
  /\ startPositionRef = NoFix
  /\ loopCheckDistanceRef = 0
  /\ intervalRef = FALSE
  /\ dbStats = getDefaultStats
  /\ dbActivities = 0
  /\ startCalls = <<>>
  /\ stopCalls = <<>>
  /\ startResult = "none"
  /\ stopResult = <<>>
  /\ commit = "none"

\* the position source once its component is mounted and watching
GeoMounted ==
  /\ position = NoFix
  /\ mounted = TRUE
  /\ watchIdRef = 1
  /\ activeWatches = {1}
  /\ nextWatchId = 2
  /\ enableHighAccuracy = TRUE
  /\ loading = TRUE

\* no tile, no distance asked for, no store in use
MapAndStoreIdle ==
  /\ tileInput = <<>>
  /\ tileResult = <<>>
  /\ distInput = <<>>
  /\ distResult = <<>>
  /\ appStore = <<>>

\* nothing has been ranked, smoothed or requested
ServicesIdle ==
  /\ MapAndStoreIdle
  /\ rankInput = <<>>
  /\ ranked = <<>>
  /\ smoothInput = <<>>
  /\ smoothed = <<>>
  /\ dailyZones = <<>>
  /\ zonePick = <<>>

Init ==
  /\ TrackerIdle
  /\ stats \in {<<>>, <<getDefaultStats>>}
  /\ GeoMounted
  /\ ServicesIdle

\* ------------------------------------------------------ position effect
\* an updater that closes a loop without resetting loopCheckDistanceRef
AcceptFix_NoLoopReset(r, pos, segmentDistance) ==
  LET prev == r.state
      acc == r.loop + segmentDistance
      closes == /\ r.start # NoFix
                /\ acc > LoopMinDistance
                /\ calculateDistance(pos, r.start) < LoopRadius
  IN [state |-> [prev EXCEPT !.path = Append(prev.path, pos),
                             !.distance = prev.distance + segmentDistance,
                             !.calories = calculateCalories(prev.activityType,
                                                            prev.duration, 0),
                             !.loops = IF closes THEN prev.loops + 1 ELSE prev.loops,
                             !.currentSpeed = segmentDistance],
      last |-> pos, start |-> r.start, loop |-> acc]

\* an updater that starts the distance over when a loop closes
AcceptFix_LoopResetsDistance(r, pos, segmentDistance) ==
  LET prev == r.state
      acc == r.loop + segmentDistance
      closes == /\ r.start # NoFix
                /\ acc > LoopMinDistance
                /\ calculateDistance(pos, r.start) < LoopRadius
  IN [state |-> [prev EXCEPT !.path = Append(prev.path, pos),
                             !.distance = IF closes THEN 0
                                          ELSE prev.distance + segmentDistance,
                             !.calories = calculateCalories(prev.activityType,
                                                            prev.duration, 0),
                             !.loops = IF closes THEN prev.loops + 1 ELSE prev.loops,
                             !.currentSpeed = segmentDistance],
      last |-> pos, start |-> r.start, loop |-> IF closes THEN 0 ELSE acc]

\* an updater that counts a loop on every return to the start, however
\* short the way
AcceptFix_LoopOnReturn(r, pos, segmentDistance) ==
  LET prev == r.state
      acc == r.loop + segmentDistance
      closes == /\ r.start # NoFix
                /\ calculateDistance(pos, r.start) < LoopRadius
  IN [state |-> [prev EXCEPT !.path = Append(prev.path, pos),
                             !.distance = prev.distance + segmentDistance,
                             !.calories = calculateCalories(prev.activityType,
                                                            prev.duration, 0),
                             !.loops = IF closes THEN prev.loops + 1 ELSE prev.loops,
                             !.currentSpeed = segmentDistance],
      last |-> pos, start |-> r.start, loop |-> IF closes THEN 0 ELSE acc]

\* the setState updater of an accepted fix, with the loop check it performs
\* on loopCheckDistanceRef; r = [state, last, start, loop]
AcceptFix(r, pos, segmentDistance) ==
  LET prev == r.state
      newDistance == prev.distance + segmentDistance
      newPath == Append(prev.path, pos)
      newCalories == calculateCalories(prev.activityType, prev.duration, newDistance)
      acc == r.loop + segmentDistance
      closes == /\ r.start # NoFix
                /\ acc > LoopMinDistance
                /\ calculateDistance(pos, r.start) < LoopRadius
  IN [state |-> [prev EXCEPT !.path = newPath,
                             !.distance = newDistance,
                             !.calories = newCalories,
                             !.loops = IF closes THEN prev.loops + 1 ELSE prev.loops,
                             !.currentSpeed = segmentDistance],
      last |-> pos,
      start |-> r.start,
      loop |-> IF closes THEN 0 ELSE acc]

\* the effect with the noise test written >= instead of >
positionEffect_NoiseInclusive(r, pos) ==
  IF ~r.state.isTracking \/ r.state.isPaused \/ pos = NoFix
  THEN r
  ELSE IF r.last # NoFix
       THEN IF calculateDistance(r.last, pos) >= NoiseThreshold
            THEN AcceptFix(r, pos, calculateDistance(r.last, pos))
            ELSE r
       ELSE [state |-> [r.state EXCEPT !.path = <<pos>>],
             last |-> pos, start |-> pos, loop |-> r.loop]

\* the effect without the isPaused test of its guard
positionEffect_IgnoresPause(r, pos) ==
  IF ~r.state.isTracking \/ pos = NoFix
  THEN r
  ELSE IF r.last # NoFix
       THEN IF calculateDistance(r.last, pos) > NoiseThreshold
            THEN AcceptFix(r, pos, calculateDistance(r.last, pos))
            ELSE r
       ELSE [state |-> [r.state EXCEPT !.path = <<pos>>],
             last |-> pos, start |-> pos, loop |-> r.loop]

\* the effect with dependencies [position, state.isTracking, state.isPaused]
positionEffect(r, pos) ==
  IF ~r.state.isTracking \/ r.state.isPaused \/ pos = NoFix
  THEN r
  ELSE IF r.last # NoFix
       THEN IF calculateDistance(r.last, pos) > NoiseThreshold
            THEN AcceptFix(r, pos, calculateDistance(r.last, pos))
            ELSE r
       ELSE [state |-> [r.state EXCEPT !.path = <<pos>>],
             last |-> pos, start |-> pos, loop |-> r.loop]

\* the duration-timer effect: its cleanup clears the interval, its body arms
\* a new one while tracking and not paused
timerEffect(st) == st.isTracking /\ ~st.isPaused

Session == [state |-> state, last |-> lastPositionRef,
            start |-> startPositionRef, loop |-> loopCheckDistanceRef]

\* does a state update change the dependencies [isTracking, isPaused]
DepsChanged(old, new) ==
  old.isTracking # new.isTracking \/ old.isPaused # new.isPaused

\* React flushes the effects of the committed render
FlushEffects ==
  /\ commit # "none"
  /\ LET r == positionEffect(Session, position)
     IN /\ state' = r.state
        /\ lastPositionRef' = r.last
        /\ startPositionRef' = r.start
        /\ loopCheckDistanceRef' = r.loop
  /\ intervalRef' = IF commit = "position" THEN intervalRef ELSE timerEffect(state)
  /\ commit' = "none"
  /\ UNCHANGED <<position, persistence, startCalls, stopCalls, startResult, stopResult>>
  /\ UNCHANGED <<geo, services>>

\* useGeolocation.handleSuccess: the watch delivers a fix
handleSuccess(p) ==
  /\ commit = "none"
  /\ Len(state.path) < MaxPath
  /\ position' = p
  /\ commit' = "position"
  /\ UNCHANGED <<state, refs, intervalRef, persistence, startCalls, stopCalls,
                 startResult, stopResult>>
  /\ UNCHANGED <<geo, services>>

\* a callback that writes the state its closure rendered, not the latest
TickState_FromRenderedState(prev) ==
  [state EXCEPT !.duration = state.duration + 1,
                !.calories = calculateCalories(state.activityType, state.duration + 1,
                                               state.distance)]

\* the setInterval callback
TickState(prev) ==
  [prev EXCEPT !.duration = prev.duration + 1,
               !.calories = calculateCalories(prev.activityType, prev.duration + 1,
                                              prev.distance)]

\* fires whenever the interval is armed, also between a state update and
\* the effect cleanup that clears it
Tick ==
  /\ intervalRef
  /\ state.duration < MaxDuration
  /\ state' = TickState(state)
  /\ UNCHANGED <<refs, intervalRef, position, persistence, startCalls, stopCalls,
                 startResult, stopResult, commit>>
  /\ UNCHANGED <<geo, services>>

\* ------------------------------------------------------- pause / resume
PausedState(prev) == [prev EXCEPT !.isPaused = TRUE]
ResumedState(prev) == [prev EXCEPT !.isPaused = FALSE]

pauseActivity ==
  /\ commit = "none"
  /\ state' = PausedState(state)
  /\ commit' = IF DepsChanged(state, state') THEN "pause" ELSE "none"
  /\ UNCHANGED <<refs, intervalRef, position, persistence, startCalls, stopCalls,
                 startResult, stopResult>>
  /\ UNCHANGED <<geo, services>>

resumeActivity ==
  /\ commit = "none"
  /\ state' = ResumedState(state)
  /\ commit' = IF DepsChanged(state, state') THEN "resume" ELSE "none"
  /\ UNCHANGED <<refs, intervalRef, position, persistence, startCalls, stopCalls,
                 startResult, stopResult>>
  /\ UNCHANGED <<geo, services>>

\* -------------------------------------------------------- startActivity
RemoveAt(seq, i) == SubSeq(seq, 1, i - 1) \o SubSeq(seq, i + 1, Len(seq))

\* the call up to its await of getCurrentPosition(); the closure keeps the
\* position of the render the callback was created in
StartCall(type) ==
  /\ commit = "none"
  /\ Len(startCalls) + Len(stopCalls) < MaxCalls
  /\ dbActivities < MaxActivities
  /\ dbStats.total_activities < MaxActivities
  /\ startCalls' = Append(startCalls, [type |-> type, position |-> position])
  /\ startResult' = "none"
  /\ stopResult' = <<>>
  /\ UNCHANGED <<state, refs, intervalRef, position, persistence, stopCalls, commit>>
  /\ UNCHANGED <<geo, services>>

\* the rest of the try block, once currentPos is known
StartSucceed(i, currentPos) ==
  /\ state' = StartedState(startCalls[i].type, currentPos)
  /\ lastPositionRef' = currentPos
  /\ startPositionRef' = currentPos
  /\ loopCheckDistanceRef' = 0
  /\ startResult' = "success"
  /\ commit' = IF DepsChanged(state, state') THEN "start" ELSE "none"

\* a resolution after which the call goes on awaiting
StartResolve_KeepsAwaiting(i, fix) ==
  /\ commit = "none"
  /\ i \in 1..Len(startCalls)
  /\ StartSucceed(i, fix)
  /\ UNCHANGED <<intervalRef, position, persistence, startCalls, stopCalls, stopResult>>
  /\ UNCHANGED <<geo, services>>

\* getCurrentPosition() resolves with a fresh fix
StartResolve(i, fix) ==
  /\ commit = "none"
  /\ i \in 1..Len(startCalls)
  /\ StartSucceed(i, fix)
  /\ startCalls' = RemoveAt(startCalls, i)
  /\ UNCHANGED <<intervalRef, position, persistence, stopCalls, stopResult>>
  /\ UNCHANGED <<geo, services>>

\* getCurrentPosition() rejects: fall back to the watch's fix, else fail
StartReject(i) ==
  /\ commit = "none"
  /\ i \in 1..Len(startCalls)
  /\ IF startCalls[i].position # NoFix
     THEN StartSucceed(i, startCalls[i].position)
     ELSE /\ startResult' = "failure"
          /\ UNCHANGED <<state, refs, commit>>
  /\ startCalls' = RemoveAt(startCalls, i)
  /\ UNCHANGED <<intervalRef, position, persistence, stopCalls, stopResult>>
  /\ UNCHANGED <<geo, services>>

\* --------------------------------------------------------- stopActivity
\* an XP reward that rounds the hundreds of metres up
xpEarned_RoundsUp(st) == ((st.distance + 99) \div 100) * 10 + st.loops * 50

\* Math.floor(state.distance / 100) * 10 + (state.loops * 50)
xpEarned(st) == (st.distance \div 100) * 10 + st.loops * 50

\* the updates object handed to updateStats
StatsUpdate(old, st) ==
  [total_activities |-> old.total_activities + 1,
   xp |-> old.xp + xpEarned(st),
   level |-> ((old.xp + xpEarned(st)) \div 1000) + 1]

\* the result object built after the awaits, from the closure's state
Summary(st) ==
  [distance |-> st.distance, duration |-> st.duration, calories |-> st.calories,
   loops |-> st.loops, xpEarned |-> xpEarned(st), path |-> st.path]

\* the call up to its first await (the insert); the guard returns null when
\* there is no activity.  user is not null while the page is mounted
\* (ProtectedRoute).  The closure keeps state and stats of its render.
StopCall ==
  /\ commit = "none"
  /\ IF state.activityType = NoType
     THEN /\ stopResult' = <<>>
          /\ UNCHANGED stopCalls
     ELSE /\ Len(startCalls) + Len(stopCalls) < MaxCalls
          /\ dbActivities + Len(stopCalls) < MaxActivities
          /\ dbStats.total_activities + Len(stopCalls) < MaxActivities
          /\ stopCalls' = Append(stopCalls,
                                 [pc |-> "insert", state |-> state, stats |-> stats])
          /\ stopResult' = <<>>
  /\ UNCHANGED <<state, refs, intervalRef, position, persistence, startCalls,
                 startResult, commit>>
  /\ UNCHANGED <<geo, services>>

\* a reset that forgets to clear the path
StopFinish_KeepsPath(i) ==
  /\ state' = [IdleState EXCEPT !.path = state.path]
  /\ lastPositionRef' = NoFix
  /\ startPositionRef' = NoFix
  /\ loopCheckDistanceRef' = 0
  /\ stopResult' = <<Summary(stopCalls[i].state)>>
  /\ stopCalls' = RemoveAt(stopCalls, i)
  /\ commit' = IF DepsChanged(state, state') THEN "stop" ELSE "none"

\* "Reset state" and the return of the result
StopFinish(i) ==
  /\ state' = IdleState
  /\ lastPositionRef' = NoFix
  /\ startPositionRef' = NoFix
  /\ loopCheckDistanceRef' = 0
  /\ stopResult' = <<Summary(stopCalls[i].state)>>
  /\ stopCalls' = RemoveAt(stopCalls, i)
  /\ commit' = IF DepsChanged(state, state') THEN "stop" ELSE "none"

\* an insert whose error makes stopActivity return null at once
StopInsertDone_ReturnsOnError(i, ok) ==
  /\ commit = "none"
  /\ i \in 1..Len(stopCalls)
  /\ stopCalls[i].pc = "insert"
  /\ dbActivities' = IF ok THEN dbActivities + 1 ELSE dbActivities
  /\ IF ~ok
     THEN /\ stopCalls' = RemoveAt(stopCalls, i)
          /\ stopResult' = <<>>
          /\ UNCHANGED <<state, refs, commit>>
     ELSE IF stopCalls[i].stats # <<>>
          THEN /\ stopCalls' = [stopCalls EXCEPT ![i].pc = "stats"]
               /\ UNCHANGED <<state, refs, stopResult, commit>>
          ELSE StopFinish(i)
  /\ UNCHANGED <<intervalRef, position, stats, dbStats, startCalls, startResult>>
  /\ UNCHANGED <<geo, services>>

\* the insert into activities answers (ok or error); an error is only logged
StopInsertDone(i, ok) ==
  /\ commit = "none"
  /\ i \in 1..Len(stopCalls)
  /\ stopCalls[i].pc = "insert"
  /\ dbActivities' = IF ok THEN dbActivities + 1 ELSE dbActivities
  /\ IF stopCalls[i].stats # <<>>
     THEN /\ stopCalls' = [stopCalls EXCEPT ![i].pc = "stats"]
          /\ UNCHANGED <<state, refs, stopResult, commit>>
     ELSE StopFinish(i)
  /\ UNCHANGED <<intervalRef, position, stats, dbStats, startCalls, startResult>>
  /\ UNCHANGED <<geo, services>>

\* updateStats answers: the update fails, or it succeeds and fetchStats
\* reloads the row (fetched) or fails to
StopStatsDone(i, outcome) ==
  /\ commit = "none"
  /\ i \in 1..Len(stopCalls)
  /\ stopCalls[i].pc = "stats"
  /\ dbStats' = IF outcome = "error" THEN dbStats
                ELSE StatsUpdate(stopCalls[i].stats[1], stopCalls[i].state)
  /\ stats' = IF outcome = "fetched" THEN <<dbStats'>> ELSE stats
  /\ StopFinish(i)
  /\ UNCHANGED <<intervalRef, position, dbActivities, startCalls, startResult>>
  /\ UNCHANGED <<geo, services>>

\* AuthProvider.fetchStats after sign-in
fetchStats ==
  /\ commit = "none"
  /\ stats = <<>>
  /\ stats' = <<dbStats>>
  /\ UNCHANGED <<state, refs, intervalRef, position, dbStats, dbActivities,
                 startCalls, stopCalls, startResult, stopResult, commit>>
  /\ UNCHANGED <<geo, services>>

Next ==
  \/ FlushEffects
  \/ \E p \in Points : handleSuccess(p)
  \/ Tick
  \/ pauseActivity
  \/ resumeActivity
  \/ \E t \in ActivityTypes : StartCall(t)
  \/ \E i \in 1..MaxCalls, p \in Points : StartResolve(i, p)
  \/ \E i \in 1..MaxCalls : StartReject(i)
  \/ StopCall
  \/ \E i \in 1..MaxCalls, ok \in BOOLEAN : StopInsertDone(i, ok)
  \/ \E i \in 1..MaxCalls, o \in {"error", "fetched", "stale"} : StopStatsDone(i, o)
  \/ fetchStats

Spec == Init /\ [][Next]_vars

\* the hook while nothing is being stopped: fixes, ticks, pause, resume and
\* the start of sessions
NextTrack ==
  \/ FlushEffects
  \/ \E p \in Points : handleSuccess(p)
  \/ Tick
  \/ pauseActivity
  \/ resumeActivity
  \/ \E t \in ActivityTypes : StartCall(t)
  \/ \E i \in 1..MaxCalls, p \in Points : StartResolve(i, p)
  \/ \E i \in 1..MaxCalls : StartReject(i)

TrackSpec == Init /\ [][NextTrack]_vars

\* navigator.geolocation answers the one-shot request, with a fix or, after
\* the timeout at the latest, with an error
ProviderAnswers ==
  \E i \in 1..MaxCalls : (\E p \in Points : StartResolve(i, p)) \/ StartReject(i)

\* the hook on an event loop that runs every queued task: effects are
\* flushed after a commit, and the provider's callback is served although
\* renders come in between
FairTrackSpec ==
  /\ TrackSpec
  /\ WF_vars(FlushEffects)
  /\ SF_vars(ProviderAnswers)

\* handleStop pressed again while an earlier stopActivity awaits: the Stop
\* button stays enabled and stopActivity tests state.activityType only
StopCallAgain ==
  /\ commit = "none"
  /\ state.activityType # NoType
  /\ stopCalls # <<>>
  /\ Len(stopCalls) < MaxStops
  /\ stopCalls' = Append(stopCalls,
                         [pc |-> "insert", state |-> state, stats |-> stats])
  /\ stopResult' = <<>>
  /\ UNCHANGED <<state, refs, intervalRef, position, persistence, startCalls,
                 startResult, commit>>
  /\ UNCHANGED <<geo, services>>

\* one session, just started from a one-shot fix, its effects flushed
SessionRunning ==
  /\ \E t \in ActivityTypes, p \in Points :
       /\ state = StartedState(t, p)
       /\ lastPositionRef = p
       /\ startPositionRef = p
  /\ loopCheckDistanceRef = 0
  /\ intervalRef = TRUE
  /\ dbStats = getDefaultStats
  /\ dbActivities = 0
  /\ startCalls = <<>>
  /\ stopCalls = <<>>
  /\ startResult = "success"
  /\ stopResult = <<>>
  /\ commit = "none"
  /\ stats \in {<<>>, <<getDefaultStats>>}
  /\ GeoMounted
  /\ ServicesIdle

\* that one session until it is stopped, the user standing still; no other
\* session is started
NextStopTwice ==
  \/ FlushEffects
  \/ Tick
  \/ StopCall
  \/ StopCallAgain
  \/ \E i \in 1..MaxStops, ok \in BOOLEAN : StopInsertDone(i, ok)
  \/ \E i \in 1..MaxStops, o \in {"error", "fetched", "stale"} : StopStatsDone(i, o)

StopTwiceSpec == SessionRunning /\ [][NextStopTwice]_vars

\* ActivityTracker.handleStart up to the await inside startActivity: the
\* start controls are rendered while not tracking and enabled once the
\* watch has a fix; nothing keeps them from being pressed again while an
\* earlier call awaits its fix
handleStart(type) ==
  /\ commit = "none"
  /\ ~state.isTracking
  /\ position # NoFix
  /\ Len(startCalls) < MaxStarts
  /\ startCalls' = Append(startCalls, [type |-> type, position |-> position])
  /\ startResult' = "none"
  /\ stopResult' = <<>>
  /\ UNCHANGED <<state, refs, intervalRef, position, persistence, stopCalls, commit>>
  /\ UNCHANGED <<geo, services>>

\* the page with its start controls, fixes and ticks; nothing is stopped
NextStartTwice ==
  \/ FlushEffects
  \/ \E p \in Points : handleSuccess(p)
  \/ Tick
  \/ \E t \in ActivityTypes : handleStart(t)
  \/ \E i \in 1..MaxStarts, p \in Points : StartResolve(i, p)
  \/ \E i \in 1..MaxStarts : StartReject(i)

StartTwiceSpec == Init /\ [][NextStartTwice]_vars

\* the same hook with sessions of every kind
NextCalories ==
  \/ FlushEffects
  \/ \E p \in Points : handleSuccess(p)
  \/ Tick
  \/ pauseActivity
  \/ resumeActivity
  \/ \E t \in AllActivityTypes : StartCall(t)
  \/ \E i \in 1..MaxCalls, p \in Points : StartResolve(i, p)
  \/ \E i \in 1..MaxCalls : StartReject(i)

CalorieSpec == Init /\ [][NextCalories]_vars

\* ------------------------------------------------------- position source
\* useGeolocation (navigator.geolocation taken to exist); g is the record
\* [ref, active, next, loading] of watchIdRef, the device's watches, the
\* id of the next watch and the loading flag
GeoRecord == [ref |-> watchIdRef, active |-> activeWatches,
              next |-> nextWatchId, loading |-> loading]

\* startWatching: sets loading and stores the id watchPosition returns
startWatchingOn(g) ==
  [g EXCEPT !.loading = TRUE,
            !.ref = g.next,
            !.active = g.active \cup {g.next},
            !.next = g.next + 1]

\* stopWatching: clears the watch watchIdRef names, if it names one
stopWatchingOn(g) ==
  IF g.ref # NoWatch
  THEN [g EXCEPT !.active = g.active \ {g.ref}, !.ref = NoWatch]
  ELSE g

SetGeo(g) ==
  /\ watchIdRef' = g.ref
  /\ activeWatches' = g.active
  /\ nextWatchId' = g.next
  /\ loading' = g.loading

\* the state of the position source before its component is first mounted
GeoInit ==
  /\ TrackerIdle
  /\ stats = <<>>
  /\ ServicesIdle
  /\ position = NoFix
  /\ mounted = FALSE
  /\ watchIdRef = NoWatch
  /\ activeWatches = {}
  /\ nextWatchId = 1
  /\ enableHighAccuracy \in BOOLEAN
  /\ loading = TRUE

\* the component mounts: fresh useState and useRef, then the effect runs
\* startWatching
Mount ==
  /\ ~mounted
  /\ nextWatchId <= MaxWatches
  /\ mounted' = TRUE
  /\ position' = NoFix
  /\ SetGeo(startWatchingOn([GeoRecord EXCEPT !.ref = NoWatch]))
  /\ UNCHANGED <<enableHighAccuracy, tracker, services>>

\* the component unmounts: the effect's cleanup runs stopWatching
Unmount ==
  /\ mounted
  /\ mounted' = FALSE
  /\ SetGeo(stopWatchingOn(GeoRecord))
  /\ UNCHANGED <<position, enableHighAccuracy, tracker, services>>

\* an option changes: startWatching is a new callback, so the effect's
\* cleanup runs and then the effect again
OptionChange ==
  /\ mounted
  /\ nextWatchId <= MaxWatches
  /\ enableHighAccuracy' = ~enableHighAccuracy
  /\ SetGeo(startWatchingOn(stopWatchingOn(GeoRecord)))
  /\ UNCHANGED <<mounted, position, tracker, services>>

\* the consumer calls the startWatching the hook returns
startWatching ==
  /\ mounted
  /\ nextWatchId <= MaxWatches
  /\ SetGeo(startWatchingOn(GeoRecord))
  /\ UNCHANGED <<mounted, position, enableHighAccuracy, tracker, services>>

\* the consumer calls the stopWatching the hook returns
stopWatching ==
  /\ mounted
  /\ SetGeo(stopWatchingOn(GeoRecord))
  /\ UNCHANGED <<mounted, position, enableHighAccuracy, tracker, services>>

\* the device calls handleSuccess for one of its watches
watchSuccess(w, p) ==
  /\ mounted
  /\ w \in activeWatches
  /\ position' = p
  /\ loading' = FALSE
  /\ UNCHANGED <<mounted, watchIdRef, activeWatches, nextWatchId,
                 enableHighAccuracy, tracker, services>>

GeoNext ==
  \/ Mount
  \/ Unmount
  \/ OptionChange
  \/ startWatching
  \/ stopWatching
  \/ \E w \in 1..MaxWatches, p \in Points : watchSuccess(w, p)

GeoSpec == GeoInit /\ [][GeoNext]_vars

\* ------------------------------------------------ recommendation services
\* Scores are kept as integers, in millionths; locations are offsets in
\* metres on the meridian of the current location.
Min(a, b) == IF a < b THEN a ELSE b
Max(a, b) == IF a > b THEN a ELSE b

RECURSIVE InsertByScore(_, _)
\* x goes behind every element whose score is not smaller
InsertByScore(x, sorted) ==
  IF sorted = <<>> THEN <<x>>
  ELSE IF Head(sorted).score >= x.score
       THEN <<Head(sorted)>> \o InsertByScore(x, Tail(sorted))
       ELSE <<x>> \o sorted

RECURSIVE SortByScore(_)
\* Array.prototype.sort((a, b) => b.score - a.score): descending, stable
SortByScore(items) ==
  IF items = <<>> THEN <<>>
  ELSE InsertByScore(items[Len(items)], SortByScore(SubSeq(items, 1, Len(items) - 1)))

\* Array.prototype.slice(0, n) for n >= 0
Slice(items, n) == SubSeq(items, 1, Min(n, Len(items)))

NoSafety == -1
NoCrowd == "none"
NoZone == "none"

\* candidates in the manner of SAFE_ZONE_LIBRARY, safetyScore in hundredths
ZoneLibrary ==
  { [id |-> "safe-park", type |-> "park", location |-> 1200,
     safetyScore |-> 93, crowdLevel |-> "medium"],
    [id |-> "safe-trail", type |-> "trail", location |-> 2200,
     safetyScore |-> 89, crowdLevel |-> "low"],
    [id |-> "safe-runway", type |-> "runway", location |-> 400,
     safetyScore |-> 91, crowdLevel |-> "low"],
    [id |-> "plain-greenway", type |-> "greenway", location |-> 3200,
     safetyScore |-> NoSafety, crowdLevel |-> NoCrowd],
    [id |-> "dark-waterfront", type |-> "waterfront", location |-> 1200,
     safetyScore |-> 50, crowdLevel |-> "high"] }

\* typeWeights, in hundredths
zoneTypeWeights(type) ==
  CASE type = "park" -> 100
    [] type = "trail" -> 95
    [] type = "runway" -> 90
    [] type = "greenway" -> 93
    [] type = "waterfront" -> 89

\* crowdPenalty, in hundredths
crowdPenalty(level) ==
  CASE level = "low" -> 100
    [] level = "medium" -> 88
    [] level = "high" -> 72

\* candidate.safetyScore ?? 0.7 of the filter
safeEnough(candidate) ==
  (IF candidate.safetyScore = NoSafety THEN 70 ELSE candidate.safetyScore) >= 60

\* the object the map callback builds; reason and mission are texts that
\* play no part in the order
zoneRecommendation(candidate, context) ==
  LET distanceMeters == calculateDistance(context.currentLocation, candidate.location)
      targetDistance == Max(context.remainingKm, 1200)
      distanceFit == 1000000000 \div (1000 + Abs(distanceMeters - targetDistance))
      safety == IF candidate.safetyScore = NoSafety THEN 75 ELSE candidate.safetyScore
      crowd == IF candidate.crowdLevel = NoCrowd THEN "medium" ELSE candidate.crowdLevel
  IN [id |-> candidate.id, type |-> candidate.type,
      distanceMeters |-> distanceMeters,
      score |-> (distanceFit * 45) \div 100 + safety * 3000
                + zoneTypeWeights(candidate.type) * 1500 + crowdPenalty(crowd) * 1000]

\* filter, map, sort, slice(0, 3)
fallbackRecommendations(candidates, context) ==
  LET safeCandidates == SelectSeq(candidates, safeEnough)
  IN Slice(SortByScore([i \in 1..Len(safeCandidates) |->
                          zoneRecommendation(safeCandidates[i], context)]), 3)

\* what the recommendation service may answer with
ServiceZones ==
  LET z(i) == [id |-> "ai", type |-> "park", distanceMeters |-> i * 100, score |-> i]
  IN {<<z(1)>>, <<z(4), z(3), z(2), z(1)>>}

RECURSIVE SeqsUpTo(_, _)
\* the sequences over S of length at most n
SeqsUpTo(S, n) ==
  IF n = 0 THEN {<<>>}
  ELSE LET shorter == SeqsUpTo(S, n - 1)
       IN shorter \cup {Append(q, x) : q \in {r \in shorter : Len(r) = n - 1}, x \in S}

DailyContext == [currentLocation |-> 0, remainingKm |-> dailyZones.remainingKm]

\* a dashboard about to ask for daily zones, and a map with zones to pick from
ZoneInit ==
  /\ TrackerIdle
  /\ MapAndStoreIdle
  /\ stats = <<>>
  /\ GeoMounted
  /\ rankInput = <<>> /\ ranked = <<>>
  /\ smoothInput = <<>> /\ smoothed = <<>>
  /\ \E cs \in SeqsUpTo(ZoneLibrary, MaxZones), r \in {500, 2000} :
       dailyZones = [pc |-> "idle", candidates |-> cs, remainingKm |-> r,
                     network |-> "none", result |-> <<>>, rejected |-> FALSE]
  /\ zonePick = [pc |-> "idle", network |-> "none", selectedZone |-> NoZone,
                 zoneReason |-> "none", isSelectingZone |-> FALSE]

\* getDailyGoToZones up to its await of fetch
DailyZonesCall ==
  /\ dailyZones.pc \in {"idle", "done"}
  /\ dailyZones' = [dailyZones EXCEPT !.pc = "fetching", !.network = "none",
                                      !.result = <<>>]
  /\ UNCHANGED <<hooks, mapAndStore, rankInput, ranked, smoothInput, smoothed, zonePick>>

\* fetch rejects, or answers not OK, or OK without zones, or OK with zones
DailyZonesRespond(network, zones) ==
  /\ dailyZones.pc = "fetching"
  /\ dailyZones' =
       [dailyZones EXCEPT
          !.pc = "done",
          !.network = network,
          !.result = IF network = "zones"
                     THEN Slice(zones, 3)
                     ELSE fallbackRecommendations(dailyZones.candidates, DailyContext)]
  /\ UNCHANGED <<hooks, mapAndStore, rankInput, ranked, smoothInput, smoothed, zonePick>>

\* MapView.handleAiZonePick up to its await of selectBestZone
handleAiZonePick ==
  /\ zonePick.pc \in {"idle", "done"}
  /\ zonePick' = [zonePick EXCEPT !.pc = "fetching", !.network = "none",
                                  !.isSelectingZone = TRUE]
  /\ UNCHANGED <<hooks, mapAndStore, rankInput, ranked, smoothInput, smoothed, dailyZones>>

\* selectBestZone returns null (fetch rejected or not OK) or the decision
\* of the service; handleAiZonePick goes on with it
ZonePickRespond(network, zoneId) ==
  /\ zonePick.pc = "fetching"
  /\ zonePick' =
       IF network = "decision"
       THEN [zonePick EXCEPT !.pc = "done", !.network = network,
                             !.selectedZone = zoneId,
                             !.zoneReason = "reason of the decision",
                             !.isSelectingZone = FALSE]
       ELSE [zonePick EXCEPT !.pc = "done", !.network = network,
                             !.zoneReason = "No suitable nearby zone found.",
                             !.isSelectingZone = FALSE]
  /\ UNCHANGED <<hooks, mapAndStore, rankInput, ranked, smoothInput, smoothed, dailyZones>>

ZoneNext ==
  \/ DailyZonesCall
  \/ \E n \in {"reject", "notOk", "noZones"} : DailyZonesRespond(n, <<>>)
  \/ \E zs \in ServiceZones : DailyZonesRespond("zones", zs)
  \/ handleAiZonePick
  \/ \E n \in {"reject", "notOk"} : ZonePickRespond(n, NoZone)
  \/ \E z \in {"zone-n", "zone-w"} : ZonePickRespond("decision", z)

ZoneSpec == ZoneInit /\ [][ZoneNext]_vars

\* ---------------------------------------------------------- place ranker
\* rankNearbyPlaces; scores are integers, in ten-thousandths, ratings are in
\* tenths, locations are offsets in metres on the meridian of the user.
NoRating == -1
PlaceTypes == {"gym", "park"}
PlaceLocations == {0, 1000, 3000}
PlaceRatings == {NoRating, 50}
UserLocations == {0, 1000}
defaultLimit == 10

\* typeWeight, in hundredths
typeWeight(type) ==
  CASE type = "gym" -> 75
    [] type = "park" -> 100
    [] type = "trail" -> 95

\* place.rating ?? 4
ratingOf(place) == IF place.rating = NoRating THEN 40 ELSE place.rating

\* a map callback whose distance score grows with the distance
rankedPlace_FartherIsBetter(user, place) ==
  LET distanceMeters == calculateDistance(user, place.location)
      distanceScore == 10000 - 10000000 \div (1000 + distanceMeters)
  IN [id |-> place.id, type |-> place.type, location |-> place.location,
      rating |-> place.rating,
      score |-> (distanceScore * 60) \div 100 + ratingOf(place) * 50
                + typeWeight(place.type) * 15,
      distanceMeters |-> distanceMeters]

\* the map callback: the place, spread, with score and distanceMeters
rankedPlace(user, place) ==
  LET distanceMeters == calculateDistance(user, place.location)
      distanceScore == 10000000 \div (1000 + distanceMeters)
  IN [id |-> place.id, type |-> place.type, location |-> place.location,
      rating |-> place.rating,
      score |-> (distanceScore * 60) \div 100 + ratingOf(place) * 50
                + typeWeight(place.type) * 15,
      distanceMeters |-> distanceMeters]

\* a ranker that never truncates
rankNearbyPlaces_IgnoresLimit(user, places, limit) ==
  SortByScore([i \in 1..Len(places) |-> rankedPlace(user, places[i])])

\* places.map(...).sort((a, b) => b.score - a.score).slice(0, limit)
rankNearbyPlaces(user, places, limit) ==
  Slice(SortByScore([i \in 1..Len(places) |-> rankedPlace(user, places[i])]), limit)

\* the places of a call: what they are, and an id that tells where each
\* stood in the array
PlaceKinds == [type : PlaceTypes, location : PlaceLocations, rating : PlaceRatings]
WithIds(kinds) ==
  [i \in 1..Len(kinds) |->
     [id |-> i, type |-> kinds[i].type, location |-> kinds[i].location,
      rating |-> kinds[i].rating]]

\* a caller about to rank some places
RankInit ==
  /\ TrackerIdle
  /\ MapAndStoreIdle
  /\ stats = <<>>
  /\ GeoMounted
  /\ ranked = <<>>
  /\ smoothInput = <<>> /\ smoothed = <<>>
  /\ dailyZones = <<>> /\ zonePick = <<>>
  /\ \E kinds \in SeqsUpTo(PlaceKinds, MaxPlaces), u \in UserLocations,
        n \in (0..MaxPlaces) \cup {defaultLimit} :
       rankInput = <<[user |-> u, places |-> WithIds(kinds), limit |-> n]>>

\* the call: the result is a new array, the arguments stay as they are
Rank ==
  /\ rankInput # <<>>
  /\ ranked = <<>>
  /\ ranked' = <<rankNearbyPlaces(rankInput[1].user, rankInput[1].places,
                                  rankInput[1].limit)>>
  /\ UNCHANGED <<hooks, mapAndStore, rankInput, smoothInput, smoothed, dailyZones, zonePick>>

\* the caller drops the result and may rank again
RankAgain ==
  /\ ranked # <<>>
  /\ ranked' = <<>>
  /\ UNCHANGED <<hooks, mapAndStore, rankInput, smoothInput, smoothed, dailyZones, zonePick>>

RankNext == Rank \/ RankAgain

RankSpec == RankInit /\ [][RankNext]_vars

\* ---------------------------------------------------------- path smoother
\* smoothGpsPath; alpha is in hundredths, and lat and lng are in units small
\* enough for the products with alpha to divide exactly.
SmoothLats == {0, 1000000, 2000000}
SmoothLngs == {0, 1000000}
Alphas == {0, 35, 50, 100}

\* a loop that averages with the previous raw fix instead of the previous
\* smoothed one
smoothedUpTo_FromRaw(path, alpha, n) ==
  [i \in 1..n |->
     IF i = 1 THEN path[1]
     ELSE [lat |-> path[i - 1].lat + (alpha * (path[i].lat - path[i - 1].lat)) \div 100,
           lng |-> path[i - 1].lng + (alpha * (path[i].lng - path[i - 1].lng)) \div 100,
           accuracy |-> path[i].accuracy,
           timestamp |-> path[i].timestamp]]

RECURSIVE smoothedUpTo(_, _, _)
\* the array smoothed after the loop has handled path[n]
smoothedUpTo(path, alpha, n) ==
  IF n = 1 THEN <<path[1]>>
  ELSE LET sofar == smoothedUpTo(path, alpha, n - 1)
           prev == sofar[Len(sofar)]
           cur == path[n]
       IN Append(sofar,
                 [lat |-> prev.lat + (alpha * (cur.lat - prev.lat)) \div 100,
                  lng |-> prev.lng + (alpha * (cur.lng - prev.lng)) \div 100,
                  accuracy |-> cur.accuracy,
                  timestamp |-> cur.timestamp])

\* a smoother that returns only paths of length 0 and 1 as they are
smoothGpsPath_SmoothsPairs(path, alpha) ==
  IF Len(path) <= 1 THEN path ELSE smoothedUpTo(path, alpha, Len(path))

\* a smoother that returns paths of up to three fixes as they are
smoothGpsPath_ShortIsThree(path, alpha) ==
  IF Len(path) <= 3 THEN path ELSE smoothedUpTo(path, alpha, Len(path))

\* if (path.length <= 2) return path; else the moving average
smoothGpsPath(path, alpha) ==
  IF Len(path) <= 2 THEN path ELSE smoothedUpTo(path, alpha, Len(path))

\* fixes as the watch stamps them, one after the other, each with its
\* accuracy
WithTimestamps(points) ==
  [i \in 1..Len(points) |->
     [lat |-> points[i].lat, lng |-> points[i].lng,
      accuracy |-> 10 + i, timestamp |-> i]]

\* a caller about to smooth a path
SmoothInit ==
  /\ TrackerIdle
  /\ MapAndStoreIdle
  /\ stats = <<>>
  /\ GeoMounted
  /\ rankInput = <<>> /\ ranked = <<>>
  /\ smoothed = <<>>
  /\ dailyZones = <<>> /\ zonePick = <<>>
  /\ \E points \in SeqsUpTo([lat : SmoothLats, lng : SmoothLngs], MaxSmoothLen),
        a \in Alphas :
       smoothInput = <<[path |-> WithTimestamps(points), alpha |-> a]>>

\* the call
Smooth ==
  /\ smoothInput # <<>>
  /\ smoothed = <<>>
  /\ smoothed' = <<smoothGpsPath(smoothInput[1].path, smoothInput[1].alpha)>>
  /\ UNCHANGED <<hooks, mapAndStore, rankInput, ranked, smoothInput, dailyZones, zonePick>>

\* the caller drops the result and may smooth again
SmoothAgain ==
  /\ smoothed # <<>>
  /\ smoothed' = <<>>
  /\ UNCHANGED <<hooks, mapAndStore, rankInput, ranked, smoothInput, dailyZones, zonePick>>

SmoothNext == Smooth \/ SmoothAgain

SmoothSpec == SmoothInit /\ [][SmoothNext]_vars

\* GoogleMap before the first fix of the activity: smoothedPath is the
\* smoothed empty path
GrowInit ==
  /\ TrackerIdle
  /\ MapAndStoreIdle
  /\ stats = <<>>
  /\ GeoMounted
  /\ rankInput = <<>> /\ ranked = <<>>
  /\ dailyZones = <<>> /\ zonePick = <<>>
  /\ \E a \in Alphas :
       /\ smoothInput = <<[path |-> <<>>, alpha |-> a]>>
       /\ smoothed = <<smoothGpsPath(<<>>, a)>>

\* activityPath arrives with one more fix and useMemo smooths it again
GrowPath(point) ==
  /\ smoothInput # <<>>
  /\ Len(smoothInput[1].path) < MaxGrowLen
  /\ LET n == Len(smoothInput[1].path) + 1
         grown == Append(smoothInput[1].path,
                         [lat |-> point.lat, lng |-> point.lng,
                          accuracy |-> 10 + n, timestamp |-> n])
     IN /\ smoothInput' = <<[smoothInput[1] EXCEPT !.path = grown]>>
        /\ smoothed' = <<smoothGpsPath(grown, smoothInput[1].alpha)>>
  /\ UNCHANGED <<hooks, mapAndStore, rankInput, ranked, dailyZones, zonePick>>

GrowNext == \E point \in [lat : SmoothLats, lng : SmoothLngs] : GrowPath(point)

GrowSpec == GrowInit /\ [][GrowNext]_vars

\* -------------------------------------------------------------- map tiles
RECURSIVE Pow2(_)
\* 2 ** zoom
Pow2(n) == IF n = 0 THEN 1 ELSE 2 * Pow2(n - 1)

\* the % of JavaScript: the remainder has the sign of the dividend
JsRemainder(a, n) == IF a >= 0 THEN a % n ELSE -((-a) % n)

\* a tileUrl that takes the remainder once
tileUrl_PlainRemainder(x, y, zoom, baseUrl) ==
  [baseUrl |-> baseUrl, zoom |-> zoom, x |-> JsRemainder(x, Pow2(zoom)), y |-> y]

\* the segments of `${baseUrl}/${zoom}/${wrappedX}/${y}.png`
tileUrl(x, y, zoom, baseUrl) ==
  LET tileCount == Pow2(zoom)
      wrappedX == JsRemainder(JsRemainder(x, tileCount) + tileCount, tileCount)
  IN [baseUrl |-> baseUrl, zoom |-> zoom, x |-> wrappedX, y |-> y]

\* a map about to ask for the tile of column x and row y, the columns
\* reaching over both edges of the world
TileInit ==
  /\ TrackerIdle
  /\ stats = <<>>
  /\ GeoMounted
  /\ rankInput = <<>> /\ ranked = <<>>
  /\ smoothInput = <<>> /\ smoothed = <<>>
  /\ dailyZones = <<>> /\ zonePick = <<>>
  /\ tileResult = <<>>
  /\ distInput = <<>> /\ distResult = <<>>
  /\ appStore = <<>>
  /\ \E zoom \in 0..MaxZoom :
       \E x \in (-2 * Pow2(zoom) - 1)..(2 * Pow2(zoom) + 1), y \in (-1)..Pow2(zoom) :
         tileInput = <<[x |-> x, y |-> y, zoom |-> zoom]>>

\* the call, with the default base URL
Tile ==
  /\ tileInput # <<>>
  /\ tileResult = <<>>
  /\ tileResult' = <<tileUrl(tileInput[1].x, tileInput[1].y, tileInput[1].zoom,
                             "https://tile.openstreetmap.org")>>
  /\ UNCHANGED <<hooks, rankInput, ranked, smoothInput, smoothed, dailyZones,
                 zonePick, tileInput, distInput, distResult, appStore>>

\* the map is drawn again
TileAgain ==
  /\ tileResult # <<>>
  /\ tileResult' = <<>>
  /\ UNCHANGED <<hooks, rankInput, ranked, smoothInput, smoothed, dailyZones,
                 zonePick, tileInput, distInput, distResult, appStore>>

TileNext == Tile \/ TileAgain

TileSpec == TileInit /\ [][TileNext]_vars

\* ------------------------------------------------- great-circle distance
\* Coordinates are whole degrees, trigonometric values are thousandths and
\* angles are milliradians.
DistLats == {-60, 0, 30, 60}
DistLngs == {-90, 0, 90}
DistCoords == [lat : DistLats, lng : DistLngs]

\* Math.sin(toRad(degrees) / 2), odd in its argument
sinHalf(degrees) ==
  LET d == Abs(degrees)
      v == CASE d = 0 -> 0
             [] d = 30 -> 259
             [] d = 60 -> 500
             [] d = 90 -> 707
             [] d = 120 -> 866
             [] d = 180 -> 1000
  IN IF degrees < 0 THEN -v ELSE v

\* Math.cos(toRad(degrees)), even in its argument
cosDeg(degrees) ==
  LET d == Abs(degrees)
  IN CASE d = 0 -> 1000
       [] d = 30 -> 866
       [] d = 60 -> 500

\* Math.sqrt of millionths, in thousandths
sqrtMilli(h) == CHOOSE r \in 0..1500 : r * r <= h /\ h < (r + 1) * (r + 1)

\* Math.asin of thousandths: its values at the tenths, linear in between
asinKnots == <<0, 100, 201, 305, 412, 524, 644, 775, 927, 1120, 1571>>

asinMilli(s) ==
  LET k == s \div 100
      lo == asinKnots[k + 1]
      hi == asinKnots[Min(k + 2, 11)]
  IN lo + ((hi - lo) * (s % 100)) \div 100

\* Math.atan2(y, x) for x, y >= 0: the angle whose sine is y / sqrt(x^2 + y^2)
atan2Milli(y, x) ==
  IF y = 0 THEN 0 ELSE asinMilli((y * 1000) \div sqrtMilli(x * x + y * y))

\* a haversine that takes the cosine of the first latitude twice
haversineDistanceMeters_FirstLatitudeTwice(a, b) ==
  LET dLat == sinHalf(b.lat - a.lat)
      dLng == sinHalf(b.lng - a.lng)
      h == dLat * dLat
           + (((cosDeg(a.lat) * cosDeg(a.lat)) \div 1000) * (dLng * dLng)) \div 1000
  IN 2 * 6371 * asinMilli(sqrtMilli(h))

\* part_000: 2 * R * asin(sqrt(h)), in metres
haversineDistanceMeters(a, b) ==
  LET dLat == sinHalf(b.lat - a.lat)
      dLng == sinHalf(b.lng - a.lng)
      h == dLat * dLat
           + (((cosDeg(a.lat) * cosDeg(b.lat)) \div 1000) * (dLng * dLng)) \div 1000
  IN 2 * 6371 * asinMilli(sqrtMilli(h))

\* useActivityTracking: R * 2 * atan2(sqrt(a), sqrt(1 - a)), in metres;
\* calculateDistance above is this function along one meridian
calculateDistanceLatLng(coord1, coord2) ==
  LET dLat == sinHalf(coord2.lat - coord1.lat)
      dLng == sinHalf(coord2.lng - coord1.lng)
      a == dLat * dLat
           + (((cosDeg(coord1.lat) * cosDeg(coord2.lat)) \div 1000) * (dLng * dLng)) \div 1000
      c == 2 * atan2Milli(sqrtMilli(a), sqrtMilli(1000000 - a))
  IN 6371 * c

\* two coordinates about to be measured
DistInit ==
  /\ TrackerIdle
  /\ stats = <<>>
  /\ GeoMounted
  /\ rankInput = <<>> /\ ranked = <<>>
  /\ smoothInput = <<>> /\ smoothed = <<>>
  /\ dailyZones = <<>> /\ zonePick = <<>>
  /\ tileInput = <<>> /\ tileResult = <<>>
  /\ distResult = <<>>
  /\ appStore = <<>>
  /\ \E a \in DistCoords, b \in DistCoords : distInput = <<[a |-> a, b |-> b]>>

\* both functions are called on (a, b)
Distance ==
  /\ distInput # <<>>
  /\ distResult = <<>>
  /\ distResult' = <<[haversine |-> haversineDistanceMeters(distInput[1].a, distInput[1].b),
                      tracker |-> calculateDistanceLatLng(distInput[1].a, distInput[1].b)]>>
  /\ UNCHANGED <<hooks, rankInput, ranked, smoothInput, smoothed, dailyZones,
                 zonePick, tileInput, tileResult, distInput, appStore>>

\* the next measurement
DistanceAgain ==
  /\ distResult # <<>>
  /\ distResult' = <<>>
  /\ UNCHANGED <<hooks, rankInput, ranked, smoothInput, smoothed, dailyZones,
                 zonePick, tileInput, tileResult, distInput, appStore>>

DistNext == Distance \/ DistanceAgain

DistSpec == DistInit /\ [][DistNext]_vars

\* -------------------------------------------------------------- app store
xpPerLevel == 1000
captureXp == 500

\* of initialStats, XP and level
initialStats == [xp |-> 0, level |-> 1]

\* amounts addXp is called with
XpAmounts == {50, 500}

\* the two owners a zone can have: the signed-in user or somebody else
ZoneOwners == {"user", "other"}

\* the store as created, its zones as rehydrated from 'fitzone-storage':
\* zones is a function from zone ids to owners
StoreInit ==
  /\ TrackerIdle
  /\ stats = <<>>
  /\ GeoMounted
  /\ rankInput = <<>> /\ ranked = <<>>
  /\ smoothInput = <<>> /\ smoothed = <<>>
  /\ dailyZones = <<>> /\ zonePick = <<>>
  /\ tileInput = <<>> /\ tileResult = <<>>
  /\ distInput = <<>> /\ distResult = <<>>
  /\ \E n \in 0..MaxStoreZones : \E zones \in [1..n -> ZoneOwners] :
       appStore = <<[stats |-> initialStats, zones |-> zones]>>

\* addXp: XP and the level computed from it
addXp(amount) ==
  /\ appStore # <<>>
  /\ appStore[1].stats.xp + amount <= MaxXp
  /\ LET newXp == appStore[1].stats.xp + amount
         newLevel == (newXp \div xpPerLevel) + 1
     IN appStore' = <<[appStore[1] EXCEPT !.stats = [xp |-> newXp, level |-> newLevel]]>>
  /\ UNCHANGED <<hooks, rankInput, ranked, smoothInput, smoothed, dailyZones,
                 zonePick, tileInput, tileResult, distInput, distResult>>

\* captureZone: nothing for an unknown zone or one the user owns, else the
\* zone changes hands and stats gets ...state.stats with xp + 500
captureZone(zoneId) ==
  /\ appStore # <<>>
  /\ appStore[1].stats.xp + captureXp <= MaxXp
  /\ IF zoneId \notin DOMAIN appStore[1].zones \/ appStore[1].zones[zoneId] = "user"
     THEN appStore' = appStore
     ELSE appStore' =
            <<[appStore[1] EXCEPT !.zones[zoneId] = "user",
                                  !.stats.xp = appStore[1].stats.xp + captureXp]>>
  /\ UNCHANGED <<hooks, rankInput, ranked, smoothInput, smoothed, dailyZones,
                 zonePick, tileInput, tileResult, distInput, distResult>>

\* logout puts initialStats back
logout ==
  /\ appStore # <<>>
  /\ appStore' = <<[appStore[1] EXCEPT !.stats = initialStats]>>
  /\ UNCHANGED <<hooks, rankInput, ranked, smoothInput, smoothed, dailyZones,
                 zonePick, tileInput, tileResult, distInput, distResult>>

StoreNext ==
  \/ \E amount \in XpAmounts : addXp(amount)
  \/ \E zoneId \in 1..(MaxStoreZones + 1) : captureZone(zoneId)
  \/ logout

StoreSpec == StoreInit /\ [][StoreNext]_vars

\* ============================================================ properties
\* steps of the model, recognised by what they do to commit and the calls
FixEffectStep == commit = "position" /\ commit' = "none"
Active == state.isTracking /\ ~state.isPaused
StartReturns == Len(startCalls') < Len(startCalls)
StopReturns == Len(stopCalls') < Len(stopCalls)
Accounting == <<state.distance, state.path, state.loops>>

\* C1: while tracking and not paused, a fix at most 5 m from lastAcceptedFix
\* changes nothing of the session (distance, path, loop accumulator, loop
\* count, lastAcceptedFix); a fix farther than 5 m is appended to the path
\* and becomes lastAcceptedFix.
C1_NoiseDiscarded ==
  [][(FixEffectStep /\ Active /\ lastPositionRef # NoFix) =>
       IF Abs(position - lastPositionRef) <= 5
       THEN UNCHANGED <<state, lastPositionRef, startPositionRef, loopCheckDistanceRef>>
       ELSE /\ state'.path = Append(state.path, position)
            /\ state'.distance = state.distance + Abs(position - lastPositionRef)
            /\ lastPositionRef' = position]_vars

\* a fix exactly 5 m from lastAcceptedFix has been delivered and dropped
C1_Witness ==
  /\ commit = "none" /\ Active
  /\ position # NoFix /\ lastPositionRef # NoFix
  /\ Abs(position - lastPositionRef) = 5
  /\ state.distance > 0

\* C2: an accepted fix that brings the loop accumulator above 100 m and lies
\* less than 30 m from the start fix adds exactly 1 to loopCount and resets
\* the accumulator to 0; an accepted fix that leaves the accumulator at 100 m
\* or less (a second return too early), or that lies more than 30 m from
\* the start fix, leaves loopCount as it was.
C2_LoopDetection ==
  [][(FixEffectStep /\ Active /\ lastPositionRef # NoFix
        /\ Abs(position - lastPositionRef) > 5) =>
       LET acc == loopCheckDistanceRef + Abs(position - lastPositionRef)
       IN /\ (acc > 100 /\ Abs(position - startPositionRef) < 30) =>
               (state'.loops = state.loops + 1 /\ loopCheckDistanceRef' = 0)
          /\ (acc <= 100 \/ Abs(position - startPositionRef) > 30) =>
               (state'.loops = state.loops /\ loopCheckDistanceRef' = acc)]_vars

\* after one closed loop the session is back within 30 m of the start with
\* less than 100 m on the accumulator, and the loop was counted once
C2_Witness ==
  /\ commit = "none" /\ Active
  /\ state.loops = 1
  /\ loopCheckDistanceRef > 0 /\ loopCheckDistanceRef <= 100
  /\ Abs(lastPositionRef - startPositionRef) < 30

\* C3: while isPaused is true, the delivery of a fix and the effect it
\* schedules change none of distance, path and loopCount.
C3_PausedFixIgnored ==
  [][(state.isPaused /\ (commit' = "position" \/ commit = "position")) =>
       UNCHANGED Accounting]_vars

\* a paused session holds a delivered fix more than 5 m from lastAcceptedFix
C3_Witness ==
  /\ commit = "none" /\ state.isTracking /\ state.isPaused
  /\ position # NoFix /\ Abs(position - lastPositionRef) > 5

\* C4: the effects that resume() schedules process no fix: distance, path
\* and loop accounting are as before the resume until a new fix arrives.
C4_ResumeProcessesNoFix ==
  [][(commit = "resume" /\ commit' = "none") => UNCHANGED Accounting]_vars

\* C5: when startActivity returns a failure, state and refs are as they
\* were; when it returns success, the state is tracking, not paused, with
\* distance, duration, calories and loops 0, the path holds exactly the
\* obtained fix, start and last fix are that fix and the accumulator is 0.
C5_StartAllOrNothing ==
  [][StartReturns =>
       /\ startResult' \in {"success", "failure"}
       /\ startResult' = "failure" =>
            UNCHANGED <<state, lastPositionRef, startPositionRef,
                        loopCheckDistanceRef, intervalRef>>
       /\ startResult' = "success" =>
            /\ state'.isTracking /\ ~state'.isPaused
            /\ state'.distance = 0 /\ state'.duration = 0
            /\ state'.calories = 0 /\ state'.loops = 0
            /\ Len(state'.path) = 1
            /\ state'.path[1] \in Points
            /\ lastPositionRef' = state'.path[1]
            /\ startPositionRef' = state'.path[1]
            /\ loopCheckDistanceRef' = 0]_vars

\* a start has failed for want of a fix and the machine is idle
C5_Witness ==
  /\ startResult = "failure"
  /\ state = IdleState /\ lastPositionRef = NoFix

\* C6: whenever stopActivity returns its summary the machine is idle:
\* isTracking and isPaused are false, path is empty, distance and loopCount
\* are 0, start fix and last fix are null and the accumulator is 0.
C6_StopResetsToIdle ==
  [][StopReturns =>
       /\ ~state'.isTracking /\ ~state'.isPaused
       /\ state'.path = <<>>
       /\ state'.distance = 0 /\ state'.loops = 0
       /\ lastPositionRef' = NoFix /\ startPositionRef' = NoFix
       /\ loopCheckDistanceRef' = 0]_vars

\* a session that had covered distance has just been stopped
C6_Witness ==
  /\ stopResult # <<>> /\ stopResult[1].distance > 0
  /\ commit = "stop"
  /\ ~state.isTracking /\ state.path = <<>>

\* C7: pause() while idle or paused, resume() while idle or active and
\* stop() while idle change no field of the session.
C7_InvalidCallsAreNoOps ==
  [][/\ (pauseActivity /\ (~state.isTracking \/ state.isPaused)) =>
          UNCHANGED <<state, lastPositionRef, startPositionRef, loopCheckDistanceRef>>
     /\ (resumeActivity /\ (~state.isTracking \/ ~state.isPaused)) =>
          UNCHANGED <<state, lastPositionRef, startPositionRef, loopCheckDistanceRef>>
     /\ (StopCall /\ ~state.isTracking) =>
          UNCHANGED <<state, lastPositionRef, startPositionRef, loopCheckDistanceRef,
                      stopCalls>>]_vars

\* C8: while the machine is idle, no step but the return of a start changes
\* duration, calories, distance, path or loopCount.
C8_NoMutationAfterStop ==
  [][(~state.isTracking /\ ~StartReturns) =>
       UNCHANGED <<state.duration, state.calories, state.distance, state.path,
                   state.loops>>]_vars

\* C9: a step of stopActivity in which persistence failed (neither a row
\* inserted nor the stats row written) still moves the call on: either to
\* the stats update, or to its return, with the summary of the call's
\* session, the XP of that summary, and the machine reset to idle.
C9_StopSurvivesPersistenceFailure ==
  [][(/\ Len(stopCalls) > 0 /\ stopCalls' # stopCalls
      /\ Len(stopCalls') <= Len(stopCalls)
      /\ dbActivities' = dbActivities /\ dbStats' = dbStats) =>
       \/ /\ Len(stopCalls') = Len(stopCalls)
          /\ \E i \in 1..Len(stopCalls) :
               stopCalls[i].pc = "insert" /\ stopCalls'[i].pc = "stats"
          /\ UNCHANGED <<state, lastPositionRef, startPositionRef, loopCheckDistanceRef>>
       \/ /\ StopReturns
          /\ ~state'.isTracking /\ ~state'.isPaused /\ state'.activityType = NoType
          /\ state'.duration = 0 /\ state'.calories = 0 /\ state'.distance = 0
          /\ stopResult' # <<>>
          /\ \E i \in 1..Len(stopCalls) :
               /\ stopCalls' = RemoveAt(stopCalls, i)
               /\ stopResult'[1].distance = stopCalls[i].state.distance
               /\ stopResult'[1].loops = stopCalls[i].state.loops
               /\ stopResult'[1].path = stopCalls[i].state.path
          /\ stopResult'[1].xpEarned =
               (stopResult'[1].distance \div 100) * 10 + stopResult'[1].loops * 50]_vars

\* stop has returned a summary with XP although nothing was persisted
C9_Witness ==
  /\ stopResult # <<>> /\ stopResult[1].xpEarned > 0
  /\ dbActivities = 0 /\ dbStats = getDefaultStats /\ stats # <<>>
  /\ ~state.isTracking

\* C10: the summary stopActivity returns holds the values the live session
\* had when it was reset.
C10_SummaryIsLastLiveState ==
  [][StopReturns =>
       /\ stopResult' # <<>>
       /\ stopResult'[1].distance = state.distance
       /\ stopResult'[1].duration = state.duration
       /\ stopResult'[1].calories = state.calories
       /\ stopResult'[1].loops = state.loops
       /\ stopResult'[1].path = state.path]_vars

\* C11: between the return of a start and the stop, distance never
\* decreases; a step that changes it adds the length of the segment from
\* lastAcceptedFix to the delivered fix, which is more than 5 m, also when
\* the fix closes a loop; ticks, pause and resume leave it alone.
C11_DistanceMonotone ==
  [][(state.isTracking /\ ~StartReturns /\ ~StopReturns) =>
       /\ state'.distance >= state.distance
       /\ state'.distance # state.distance =>
            /\ lastPositionRef # NoFix /\ position # NoFix
            /\ calculateDistance(lastPositionRef, position) > NoiseThreshold
            /\ state'.distance =
                 state.distance + calculateDistance(lastPositionRef, position)
            /\ lastPositionRef' = position
       /\ (Tick \/ pauseActivity \/ resumeActivity) =>
            state'.distance = state.distance]_vars

\* a loop has been closed and the distance of the whole session is kept
C11_Witness ==
  /\ state.isTracking /\ state.loops > 0
  /\ state.distance > LoopMinDistance
  /\ loopCheckDistanceRef = 0

\* C12: duration is driven by the interval alone: a tick while tracking and
\* not paused adds exactly 1, a fix leaves duration alone, and a tick while
\* paused or idle changes neither duration nor calories.
C12_ClockOnlyWhileActive ==
  [][/\ (Tick /\ Active) => state'.duration = state.duration + 1
     /\ FixEffectStep => state'.duration = state.duration
     /\ (Tick /\ ~Active) =>
          UNCHANGED <<state.duration, state.calories>>]_vars

\* C13: in every state of a session being tracked, calories is
\* MET * 70 * duration / 3600 with MET 10 for run, 3.5 for walk and 7 for
\* cycle (here in units of 1/36000 kcal), whatever the distance covered.
C13_CaloriesFromTimeAndKind ==
  state.isTracking =>
    /\ state.activityType \in {"run", "walk", "cycle"}
    /\ state.calories =
         (CASE state.activityType = "run" -> 100
            [] state.activityType = "walk" -> 35
            [] state.activityType = "cycle" -> 70) * 70 * state.duration

\* a cycle session after one tick and an accepted fix
C13_Witness ==
  /\ state.isTracking /\ state.activityType = "cycle"
  /\ state.duration = 1 /\ state.distance > 0
  /\ state.calories = 4900

\* C14: the XP of a stop is floor(distance / 100) * 10 + loops * 50 of the
\* session the stop finalizes: in the summary it returns, and in the XP it
\* adds to the stats row; 1250 m and 2 loops give 220.
C14_XpFormula ==
  [][/\ StopReturns =>
          /\ stopResult' # <<>>
          /\ stopResult'[1].xpEarned =
               (stopResult'[1].distance \div 100) * 10 + stopResult'[1].loops * 50
     /\ (StopReturns /\ dbStats' # dbStats) =>
          \E i \in 1..Len(stopCalls) :
            /\ stopCalls' = RemoveAt(stopCalls, i)
            /\ dbStats'.xp = stopCalls[i].stats[1].xp + stopResult'[1].xpEarned
     /\ xpEarned([distance |-> 1250, loops |-> 2]) = 220]_vars

\* a stopped session of more than 200 m with one loop has earned 70 XP,
\* and the stats row holds them
C14_Witness ==
  /\ stopResult # <<>>
  /\ stopResult[1].distance > 200 /\ stopResult[1].loops = 1
  /\ stopResult[1].xpEarned = 70
  /\ dbStats.xp = 70

\* C15: when getCurrentPosition() rejects while the watch holds a fix,
\* startActivity succeeds with that fix as the start fix; it fails only
\* when the watch holds no fix.
C15_FallbackToCachedFix ==
  [][(\E i \in 1..MaxCalls : StartReject(i)) =>
       /\ position # NoFix =>
            /\ startResult' = "success"
            /\ startPositionRef' = position
            /\ state'.isTracking /\ state'.path = <<position>>
       /\ startResult' = "failure" => position = NoFix]_vars

\* C16: the position source never leaks a watch: at most one watch is
\* registered with the device, it is the one watchIdRef names, and none is
\* registered while the component is unmounted.
C16_NoLeakedWatch ==
  /\ Cardinality(activeWatches) <= 1
  /\ activeWatches \subseteq {watchIdRef}
  /\ ~mounted => activeWatches = {}

\* C17: when the recommendation service fails (fetch rejects, status not
\* OK, no zones), the caller has a local ranking instead: recommendations in
\* descending score, no rejection, and no failure message for the user.
C17_FallbackToLocalRanking ==
  /\ (dailyZones.pc = "done" /\ dailyZones.network # "zones") =>
       /\ ~dailyZones.rejected
       /\ dailyZones.result =
            fallbackRecommendations(dailyZones.candidates, DailyContext)
       /\ \A i \in 1..(Len(dailyZones.result) - 1) :
            dailyZones.result[i].score >= dailyZones.result[i + 1].score
  /\ (zonePick.pc = "done" /\ zonePick.network # "decision") =>
       /\ zonePick.selectedZone # NoZone
       /\ zonePick.zoneReason # "No suitable nearby zone found."

\* C18: rankNearbyPlaces returns min(limit, number of candidates) of the
\* candidates, each once and with its own fields, in descending score,
\* candidates of equal score in the order of the input, none left out that
\* scores higher than one returned; the arguments are left as they were.
C18_RankedSortedTruncated ==
  [][(ranked = <<>> /\ ranked' # <<>>) =>
       LET in == rankInput[1]
           out == ranked'[1]
       IN /\ rankInput' = rankInput
          /\ Len(out) = Min(in.limit, Len(in.places))
          /\ \A i \in 1..Len(out) :
               /\ out[i].id \in 1..Len(in.places)
               /\ out[i].type = in.places[out[i].id].type
               /\ out[i].location = in.places[out[i].id].location
               /\ out[i].rating = in.places[out[i].id].rating
          /\ \A i, j \in 1..Len(out) :
               i < j => /\ out[i].id # out[j].id
                        /\ out[i].score >= out[j].score
                        /\ out[i].score = out[j].score => out[i].id < out[j].id
          /\ \A k \in 1..Len(in.places), j \in 1..Len(out) :
               (\A i \in 1..Len(out) : out[i].id # k) =>
                 rankedPlace(in.user, in.places[k]).score <= out[j].score]_vars

\* three places were ranked with limit 2, and the two returned tie
C18_Witness ==
  /\ ranked # <<>> /\ rankInput # <<>>
  /\ Len(rankInput[1].places) = 3 /\ rankInput[1].limit = 2
  /\ Len(ranked[1]) = 2
  /\ ranked[1][1].score = ranked[1][2].score

\* C19: of two candidates of one category, the nearer of which is rated at
\* least as high as the farther, the nearer is ranked before the farther
\* and carries the strictly smaller distanceMeters.
C19_NearerRanksFirst ==
  ranked # <<>> =>
    LET in == rankInput[1]
        out == ranked[1]
        dist(k) == Abs(in.places[k].location - in.user)
    IN \A k \in 1..Len(in.places), j \in 1..Len(out) :
         (/\ in.places[k].type = out[j].type
          /\ dist(k) < dist(out[j].id)
          /\ ratingOf(in.places[k]) >= ratingOf(in.places[out[j].id])) =>
           \E i \in 1..(j - 1) :
             /\ out[i].id = k
             /\ out[i].distanceMeters < out[j].distanceMeters

\* a park 1000 m away is ranked before an equally rated park 3000 m away
\* that came first in the input
C19_Witness ==
  /\ ranked # <<>> /\ rankInput # <<>>
  /\ Len(ranked[1]) = 2
  /\ ranked[1][1].id = 2 /\ ranked[1][2].id = 1
  /\ ranked[1][1].type = "park" /\ ranked[1][2].type = "park"
  /\ ranked[1][1].rating = ranked[1][2].rating
  /\ ranked[1][1].distanceMeters = 1000 /\ ranked[1][2].distanceMeters = 3000

\* C20: for a path of length 0, 1 or 2 smoothGpsPath returns the path as it
\* is, the same length and the same values, whatever alpha.
C20_ShortPathUnchanged ==
  (smoothed # <<>> /\ Len(smoothInput[1].path) <= 2) =>
    /\ Len(smoothed[1]) = Len(smoothInput[1].path)
    /\ smoothed[1] = smoothInput[1].path

\* two different fixes have gone through the smoother with alpha 0.35
C20_Witness ==
  /\ smoothed # <<>> /\ smoothInput # <<>>
  /\ smoothInput[1].alpha = 35
  /\ Len(smoothed[1]) = 2
  /\ smoothed[1][1].lat # smoothed[1][2].lat

C22_TileXWrapped ==
  tileResult # <<>> =>
    LET in == tileInput[1]
        url == tileResult[1]
    IN /\ url.x \in 0..(Pow2(in.zoom) - 1)
       /\ \E q \in -3..3 : url.x = in.x + q * Pow2(in.zoom)
       /\ url.y = in.y
       /\ url.zoom = in.zoom

\* a column left of the world and a row above it: x is wrapped, y is not
C22_Witness ==
  /\ tileResult # <<>> /\ tileInput # <<>>
  /\ tileInput[1].zoom = 2 /\ tileInput[1].x = -5 /\ tileInput[1].y = -1
  /\ tileResult[1].x = 3 /\ tileResult[1].y = -1

\* C23: both distance functions are symmetric, distance(a, b) = distance(b, a),
\* and give 0 for a coordinate and itself.
C23_DistanceSymmetric ==
  distResult # <<>> =>
    LET a == distInput[1].a
        b == distInput[1].b
        d == distResult[1]
    IN /\ d.haversine = haversineDistanceMeters(b, a)
       /\ d.tracker = calculateDistanceLatLng(b, a)
       /\ (a = b => d.haversine = 0 /\ d.tracker = 0)
       /\ haversineDistanceMeters(a, a) = 0
       /\ calculateDistanceLatLng(b, b) = 0

\* two places that differ in latitude and in longitude, measured
C23_Witness ==
  /\ distResult # <<>> /\ distInput # <<>>
  /\ distInput[1].a.lat = 0 /\ distInput[1].b.lat = 60
  /\ distInput[1].a.lng # distInput[1].b.lng
  /\ distResult[1].haversine > 0 /\ distResult[1].tracker > 0

\* a fix that the position effect is about to accept while the interval is
\* armed: the two updaters are queued on the same session
FixAndTickPending ==
  /\ commit = "position"
  /\ intervalRef
  /\ Active
  /\ position # NoFix
  /\ lastPositionRef # NoFix
  /\ calculateDistance(lastPositionRef, position) > NoiseThreshold

\* C24: an accepted fix and a tick on the same session give the same
\* distance, path, loops, duration and calories in either order, and the
\* result holds both the fix and the second.
C24_FixAndTickCommute ==
  FixAndTickPending =>
    LET fixThenTick == TickState(positionEffect(Session, position).state)
        tickThenFix ==
          positionEffect([Session EXCEPT !.state = TickState(state)], position)
    IN /\ fixThenTick = tickThenFix.state
       /\ tickThenFix.loop = positionEffect(Session, position).loop
       /\ tickThenFix.last = position
       /\ fixThenTick.duration = state.duration + 1
       /\ fixThenTick.path = Append(state.path, position)
       /\ fixThenTick.distance
            = state.distance + calculateDistance(lastPositionRef, position)
       /\ fixThenTick.calories
            = calculateCalories(state.activityType, state.duration + 1,
                                fixThenTick.distance)

\* a second ticked and a fix accepted earlier, the next fix waiting for its
\* effect with the interval armed
C24_Witness ==
  /\ FixAndTickPending
  /\ state.duration = 1
  /\ Len(state.path) >= 2
  /\ state.distance > 0

\* C25: every call of startActivity that awaits the location provider
\* eventually returns, with success or with a failure result: unless
\* startActivity is called again and again for ever, there are, time and
\* again, no calls left awaiting; and a call that returns has returned
\* success or failure.
C25_StartCompletes ==
  /\ \/ []<><<\E t \in ActivityTypes : StartCall(t)>>_vars
     \/ []<>(Len(startCalls) = 0)
  /\ [][StartReturns => startResult' \in {"success", "failure"}]_vars

\* a call that was answered with an error and no cached fix has returned a
\* failure, the session still idle
C25_Witness ==
  /\ startCalls = <<>>
  /\ startResult = "failure"
  /\ state = IdleState
  /\ commit = "none"

\* C26: one session is finalized at most once: at most one activity record
\* reaches the activities table and the activity count of the stats row
\* grows by at most one, also when stop is pressed again while an earlier
\* call awaits persistence.
C26_FinalizedOnce ==
  /\ dbActivities <= 1
  /\ dbStats.total_activities <= 1

\* C27: a start call that returns while a session is live leaves the
\* session's path, distance, duration, loop count and start fix as they
\* were: only stop clears a live session.
C27_StartKeepsLiveSession ==
  [][(state.isTracking /\ StartReturns) =>
       /\ state'.path = state.path
       /\ state'.distance = state.distance
       /\ state'.duration = state.duration
       /\ state'.loops = state.loops
       /\ startPositionRef' = startPositionRef]_vars

\* C28: while tracking, distance >= loop accumulator + 100 * loops, strictly
\* once a loop is counted, so loops <= floor(distance / 100); and loops
\* grows by at most 1 in a step, which is then a run of the position effect
\* that accepts a fix.
C28_LoopsPaidByDistance ==
  /\ [](state.isTracking =>
          /\ state.distance >= loopCheckDistanceRef + LoopMinDistance * state.loops
          /\ (state.loops > 0 =>
                state.distance > loopCheckDistanceRef + LoopMinDistance * state.loops)
          /\ state.loops <= state.distance \div LoopMinDistance)
  /\ [][/\ state'.loops <= state.loops + 1
        /\ (state'.loops > state.loops =>
              /\ commit # "none" /\ commit' = "none"
              /\ Active
              /\ lastPositionRef # NoFix
              /\ calculateDistance(lastPositionRef, position) > NoiseThreshold)]_vars

\* one loop counted and the session moving on: the accumulator has started
\* over and the distance holds the loop and what came after
C28_Witness ==
  /\ state.isTracking
  /\ state.loops = 1
  /\ loopCheckDistanceRef > 0
  /\ state.distance > LoopMinDistance + loopCheckDistanceRef
  /\ Len(state.path) = MaxPath

\* C29 as claimed: for every k <= length(p), smoothing the first k fixes of
\* p gives the first k points of the smoothed p.
C29_PrefixStable ==
  smoothed # <<>> =>
    LET p == smoothInput[1].path
        a == smoothInput[1].alpha
    IN \A k \in 0..Len(p) :
         smoothGpsPath(SubSeq(p, 1, k), a) = SubSeq(smoothed[1], 1, k)

\* C29 amended: the same for every k <= length(p) except the prefix of two
\* fixes of a longer path, which is returned raw while the longer path
\* smooths its second point.
C29_PrefixStableFromThree ==
  smoothed # <<>> =>
    LET p == smoothInput[1].path
        a == smoothInput[1].alpha
    IN \A k \in 0..Len(p) :
         (k # 2 \/ Len(p) <= 2) =>
           smoothGpsPath(SubSeq(p, 1, k), a) = SubSeq(smoothed[1], 1, k)

\* a path grown to four fixes whose third point is drawn away from its raw
\* fix, where it was drawn when the path had three
C29_Witness ==
  /\ smoothed # <<>> /\ smoothInput # <<>>
  /\ Len(smoothInput[1].path) = 4
  /\ smoothInput[1].alpha = 35
  /\ smoothed[1][3].lat # smoothInput[1].path[3].lat
  /\ smoothed[1][3] = smoothGpsPath(SubSeq(smoothInput[1].path, 1, 3), 35)[3]

====
